---- MODULE Spec2Model ----
(***************************************************************************)
(* Behavioural model of the dashboard front end:                           *)
(*   - RegisterForm  (src/src/components/RegisterForm.tsx, lines 30-504)   *)
(*   - OAuthCallback (src/src/components/RegisterForm.tsx, lines 512-540)  *)
(*   - Settings      (src/src/pages/brand/Settings.tsx)                    *)
(* Text is modelled as a tuple of one-character strings, so that length,   *)
(* trimming, pattern matching and percent-encoding are computed.           *)
(***************************************************************************)
EXTENDS Integers, Sequences, FiniteSets, TLC

VARIABLES
    values,          \* RegisterForm: the form's field values (react-hook-form)
    errors,          \* RegisterForm: formState.errors, field -> message
    isSubmitted,     \* RegisterForm: formState.isSubmitted
    isLoading,       \* RegisterForm: the busy flag
    inFlight,        \* RegisterForm: register() calls awaiting completion (closure data)
    registerCalls,   \* payloads handed to register(), in call order
    mounted,         \* RegisterForm is on screen
    result,          \* last result of running formSchema on `values` on its own
    toasts,          \* notifications emitted through toast(), in order
    navigations,     \* calls of navigate(), in order
    oauth,           \* OAuthCallback: mounted, calls made, calls pending, outcomes
    st,              \* Settings: the component's useState cells
    timers,          \* Settings: pending setTimeout callbacks with the values they closed over
    clock,           \* wall clock read by new Date()
    signUp,          \* RegisterForm: useSignUp() (isLoaded) and the redirect handshakes
    user,            \* useUser(): isAuthenticated and role; Settings on screen, guard effect due
    served           \* nginx: the requests answered so far, each with its response

vars == <<values, errors, isSubmitted, isLoading, inFlight, registerCalls,
          mounted, result, toasts, navigations, oauth, st, timers, clock,
          signUp, user, served>>

regVars == <<values, errors, isSubmitted, isLoading, inFlight, registerCalls,
             mounted, result>>

----------------------------------------------------------------------------
(* Bounds of the model *)

MaxSubmits == 2

MaxOAuthCalls == 4

MaxClock == 3

MaxToasts == 3

MaxGoogleClicks == 2

MaxSocialToasts == 2

----------------------------------------------------------------------------
(* Text helpers *)

Letters ==
    {"a","b","c","d","e","f","g","h","i","j","k","l","m","n","o","p","q","r",
     "s","t","u","v","w","x","y","z",
     "A","B","C","D","E","F","G","H","I","J","K","L","M","N","O","P","Q","R",
     "S","T","U","V","W","X","Y","Z"}

Digits == {"0","1","2","3","4","5","6","7","8","9"}

AlphaNum == Letters \cup Digits

\* ASCII codes of the non-alphanumeric characters that occur in the model
CharCode ==
    (" " :> 32) @@ ("+" :> 43) @@ ("@" :> 64) @@ ("/" :> 47) @@ ("?" :> 63) @@
    ("=" :> 61) @@ ("%" :> 37) @@ ("&" :> 38)

HexDigit ==
    <<"0","1","2","3","4","5","6","7","8","9","A","B","C","D","E","F">>

\* Characters encodeURIComponent leaves alone: A-Z a-z 0-9 - _ . ! ~ * ' ( )
UriUnreserved == AlphaNum \cup {"-", "_", ".", "!", "~", "*", "'", "(", ")"}

EncodeCharIdentity(c) == <<c>>

EncodeChar(c) ==
    IF c \in UriUnreserved
    THEN <<c>>
    ELSE <<"%", HexDigit[(CharCode[c] \div 16) + 1], HexDigit[(CharCode[c] % 16) + 1]>>

RECURSIVE encodeURIComponent(_)
encodeURIComponent(s) ==
    IF s = <<>> THEN <<>>
    ELSE EncodeChar(Head(s)) \o encodeURIComponent(Tail(s))

\* Positions of character c in s
Positions(s, c) == {i \in 1..Len(s) : s[i] = c}

----------------------------------------------------------------------------
(* Texts used as inputs *)

Empty == <<>>
TwoSpaces == <<" ", " ">>
JaneDoe == <<"J","a","n","e"," ","D","o","e">>
JaneEmail == <<"j","a","n","e","@","x",".","c","o","m">>
PlusEmail == <<"a","+","b","@","x",".","c","o">>
NoAtEmail == <<"j","a","n","e">>
NoTldEmail == <<"j","a","n","e","@","x">>
Pw7 == <<"a","b","c","d","1","2","3">>
Pw8 == <<"a","b","c","d","1","2","3","4">>
Pw8b == <<"a","b","c","d","1","2","3","5">>

VerifyEmailPrefix ==
    <<"/","v","e","r","i","f","y","-","e","m","a","i","l","?","e","m","a","i","l","=">>

JaneEmailEncoded == <<"j","a","n","e","%","4","0","x",".","c","o","m">>

NameInputs == {Empty, <<"J">>, TwoSpaces, JaneDoe}
EmailInputs == {Empty, NoAtEmail, NoTldEmail, JaneEmail, PlusEmail}
PasswordInputs == {Empty, Pw7, Pw8, Pw8b}

Roles == {"manufacturer", "brand", "retailer"}

Fields == {"name", "email", "password", "confirmPassword", "role"}

RenderedFieldsWithRole == {"name", "email", "password", "confirmPassword", "role"}

\* Fields that have a rendered control (the role selector is commented out)
RenderedFields == {"name", "email", "password", "confirmPassword"}

\* What the user types into a rendered field (the e-mail and password fields
\* start empty and are typed into, not cleared again)
FieldInputs(f) ==
    CASE f = "name" -> NameInputs
      [] f = "email" -> EmailInputs \ {Empty}
      [] f = "password" -> PasswordInputs \ {Empty}
      [] f = "confirmPassword" -> PasswordInputs \ {Empty}
      [] f = "role" -> Roles

----------------------------------------------------------------------------
(* formSchema: the zod schema of the registration form *)

NameMinLength == 2
PasswordMinLength == 8

NameMsg == "Name must be at least 2 characters"
EmailMsg == "Please enter a valid email address"
PasswordMsg == "Password must be at least 8 characters"
RoleMsg == "Please select a role"
MismatchMsg == "Passwords do not match"
NoError == "none"

\* z.string().email(): local part, "@", dot-separated labels, alphabetic TLD
LocalChars == AlphaNum \cup {"_", "'", "+", "-", "."}
LocalLastChars == AlphaNum \cup {"_", "+", "-"}
LabelChars == AlphaNum \cup {"-"}

\* s[a..b] is a domain label that is not the last one
IsLabel(s, a, b) ==
    /\ a <= b
    /\ s[a] \in AlphaNum
    /\ \A k \in a..b : s[k] \in LabelChars

\* s[a..b] is the top-level domain
IsTld(s, a, b) ==
    /\ b - a + 1 >= 2
    /\ \A k \in a..b : s[k] \in Letters

IsDomain(s, from) ==
    LET n == Len(s)
        dots == {k \in from..n : s[k] = "."}
        cuts == dots \cup {from - 1, n + 1}
        \* the cut that precedes position k
        Prev(k) == CHOOSE p \in cuts : p < k /\ \A q \in cuts : q < k => q <= p
    IN  /\ dots # {}
        /\ \A k \in dots : IsLabel(s, Prev(k) + 1, k - 1)
        /\ IsTld(s, Prev(n + 1) + 1, n)

IsEmail(s) ==
    /\ Cardinality(Positions(s, "@")) = 1
    /\ LET at == CHOOSE i \in Positions(s, "@") : TRUE
       IN  /\ at >= 2
           /\ s[1] # "."
           /\ \A k \in 1..(Len(s) - 1) : ~(s[k] = "." /\ s[k + 1] = ".")
           /\ \A k \in 1..(at - 1) : s[k] \in LocalChars
           /\ s[at - 1] \in LocalLastChars
           /\ IsDomain(s, at + 1)

Issue(p, m) == [path |-> p, message |-> m]

NameRuleLax(data) == IF Len(data.name) < 1 THEN <<Issue("name", NameMsg)>> ELSE <<>>

NameRule(data) ==
    IF Len(data.name) < NameMinLength THEN <<Issue("name", NameMsg)>> ELSE <<>>

EmailRule(data) ==
    IF IsEmail(data.email) THEN <<>> ELSE <<Issue("email", EmailMsg)>>

PasswordRule(data) ==
    IF Len(data.password) < PasswordMinLength
    THEN <<Issue("password", PasswordMsg)>> ELSE <<>>

ConfirmPasswordRule(data) ==
    IF Len(data.confirmPassword) < PasswordMinLength
    THEN <<Issue("confirmPassword", PasswordMsg)>> ELSE <<>>

RoleRule(data) ==
    IF data.role \in Roles THEN <<>> ELSE <<Issue("role", RoleMsg)>>

\* z.object({...}): the issues of the five fields, in key order
ObjectIssues(data) ==
    NameRule(data) \o EmailRule(data) \o PasswordRule(data)
        \o ConfirmPasswordRule(data) \o RoleRule(data)

\* A failed string check leaves the parse "dirty"; a wrong type or an enum
\* miss aborts it.
ObjectAborted(data) == data.role \notin Roles

RefineIssuesOnPassword(data) ==
    IF data.password = data.confirmPassword
    THEN <<>> ELSE <<Issue("password", MismatchMsg)>>

\* .refine(data => data.password === data.confirmPassword, {path: ["confirmPassword"]})
RefineIssues(data) ==
    IF data.password = data.confirmPassword
    THEN <<>> ELSE <<Issue("confirmPassword", MismatchMsg)>>

SchemaIssuesShortCircuit(data) ==
    IF ObjectIssues(data) # <<>>
    THEN ObjectIssues(data)
    ELSE RefineIssues(data)

\* formSchema.safeParse(data).error.issues: the refinement runs unless the
\* object parse aborted
SchemaIssues(data) ==
    IF ObjectAborted(data)
    THEN ObjectIssues(data)
    ELSE ObjectIssues(data) \o RefineIssues(data)

\* zodResolver: the first issue of each path becomes that field's error
ToFieldErrors(issues) ==
    [f \in Fields |->
        LET at == {i \in 1..Len(issues) : issues[i].path = f}
        IN  IF at = {} THEN NoError
            ELSE issues[CHOOSE i \in at : \A j \in at : i <= j].message]

NoFieldErrors == [f \in Fields |-> NoError]

validate(data) ==
    LET issues == SchemaIssues(data)
    IN  [ok |-> issues = <<>>, issues |-> issues, fieldErrors |-> ToFieldErrors(issues)]

----------------------------------------------------------------------------
(* RegisterForm *)

SuccessToast == [title |-> "Verification email sent", variant |-> "default"]
FailureToast == [title |-> "Registration failed", variant |-> "destructive"]

Navigation(to, replace) == [to |-> to, replace |-> replace]

\* useForm defaultValues
defaultValues ==
    [name |-> Empty, email |-> Empty, password |-> Empty,
     confirmPassword |-> Empty, role |-> "manufacturer"]

\* The object onSubmit hands to register()
Payload(data) ==
    [name |-> data.name, email |-> data.email, password |-> data.password,
     status |-> "online", role |-> data.role, companyName |-> "pending"]

RemoveAt(s, i) == SubSeq(s, 1, i - 1) \o SubSeq(s, i + 1, Len(s))

RegInit ==
    /\ values = defaultValues
    /\ errors = NoFieldErrors
    /\ isSubmitted = FALSE
    /\ isLoading = FALSE
    /\ inFlight = <<>>
    /\ registerCalls = <<>>
    /\ mounted = TRUE
    /\ result = <<>>

\* The user edits one rendered field. Once the form has been submitted,
\* react-hook-form re-validates on change and refreshes that field's error.
SetField(f, v) ==
    /\ mounted
    /\ values[f] # v
    /\ values' = [values EXCEPT ![f] = v]
    /\ errors' = IF isSubmitted
                 THEN [errors EXCEPT ![f] = validate(values').fieldErrors[f]]
                 ELSE errors
    /\ UNCHANGED <<isSubmitted, isLoading, inFlight, registerCalls, mounted, result,
                   toasts, navigations, oauth, st, timers, clock,
                   signUp, user, served>>

SubmitAlwaysEnabled == TRUE

\* <Button type="submit" disabled={isLoading}>
SubmitEnabled == ~isLoading

SubmitSkipsValidation(data) == TRUE

\* form.handleSubmit: onSubmit runs only when the resolver reports no error
SubmitPasses(data) == validate(data).ok

\* form.handleSubmit(onSubmit), up to the await of register()
HandleSubmit ==
    /\ mounted
    /\ SubmitEnabled
    /\ isSubmitted' = TRUE
    /\ \/ /\ ~SubmitPasses(values)
          /\ errors' = validate(values).fieldErrors
          /\ UNCHANGED <<isLoading, inFlight, registerCalls>>
       \/ /\ SubmitPasses(values)
          /\ Len(registerCalls) < MaxSubmits
          /\ errors' = NoFieldErrors
          /\ isLoading' = TRUE
          /\ registerCalls' = Append(registerCalls, Payload(values))
          /\ inFlight' = Append(inFlight, values)
    /\ UNCHANGED <<values, mounted, result, toasts, navigations, oauth, st, timers, clock,
                   signUp, user, served>>

\* The address onSubmit navigates to after register() resolved
VerifyEmailUrl(data) == VerifyEmailPrefix \o encodeURIComponent(data.email)

RegisterResolvedResetsForm ==
    \E i \in 1..Len(inFlight) :
        /\ toasts' = Append(toasts, SuccessToast)
        /\ navigations' = Append(navigations, Navigation(VerifyEmailUrl(inFlight[i]), FALSE))
        /\ isLoading' = FALSE
        /\ inFlight' = RemoveAt(inFlight, i)
        /\ mounted' = FALSE
        /\ values' = defaultValues
        /\ UNCHANGED <<errors, isSubmitted, registerCalls, result,
                       oauth, st, timers, clock, signUp, user, served>>

\* register() resolved: success toast, navigate, finally clear the busy flag
RegisterResolved ==
    \E i \in 1..Len(inFlight) :
        /\ toasts' = Append(toasts, SuccessToast)
        /\ navigations' = Append(navigations, Navigation(VerifyEmailUrl(inFlight[i]), FALSE))
        /\ isLoading' = FALSE
        /\ inFlight' = RemoveAt(inFlight, i)
        /\ mounted' = FALSE
        /\ UNCHANGED <<values, errors, isSubmitted, registerCalls, result,
                       oauth, st, timers, clock,
                   signUp, user, served>>

RegisterRejectedNoFinally ==
    \E i \in 1..Len(inFlight) :
        /\ toasts' = Append(toasts, FailureToast)
        /\ inFlight' = RemoveAt(inFlight, i)
        /\ UNCHANGED <<values, errors, isSubmitted, isLoading, registerCalls, mounted,
                       result, navigations, oauth, st, timers, clock,
                   signUp, user, served>>

RegisterRejectedResetsForm ==
    \E i \in 1..Len(inFlight) :
        /\ toasts' = Append(toasts, FailureToast)
        /\ isLoading' = FALSE
        /\ inFlight' = RemoveAt(inFlight, i)
        /\ values' = defaultValues
        /\ UNCHANGED <<errors, isSubmitted, registerCalls, mounted, result,
                       navigations, oauth, st, timers, clock,
                   signUp, user, served>>

\* register() rejected: failure toast, finally clear the busy flag
RegisterRejected ==
    \E i \in 1..Len(inFlight) :
        /\ toasts' = Append(toasts, FailureToast)
        /\ isLoading' = FALSE
        /\ inFlight' = RemoveAt(inFlight, i)
        /\ UNCHANGED <<values, errors, isSubmitted, registerCalls, mounted, result,
                       navigations, oauth, st, timers, clock,
                   signUp, user, served>>

RegNext ==
    \/ \E f \in RenderedFields : \E v \in FieldInputs(f) : SetField(f, v)
    \/ HandleSubmit
    \/ RegisterResolved
    \/ RegisterRejected

----------------------------------------------------------------------------
(* RegisterForm: the social registration buttons *)

GoogleFailureToast ==
    [title |-> "Registration failed", variant |-> "destructive",
     description |-> "Could not register with Google."]
LineToast == [title |-> "Line Registration", variant |-> "default"]
OutlookToast == [title |-> "Outlook Registration", variant |-> "default"]

\* useSignUp(): isLoaded is false until Clerk has loaded. clicks counts the
\* presses of the Google button, started the authenticateWithRedirect calls
\* made, pending those not yet settled, outcomes how the settled ones ended.
SignUpInit ==
    signUp = [isLoaded |-> FALSE, clicks |-> 0, started |-> 0, pending |-> 0,
              outcomes |-> <<>>]

\* Clerk finishes loading; useSignUp() now returns isLoaded = true
ClerkLoaded ==
    /\ ~signUp.isLoaded
    /\ signUp' = [signUp EXCEPT !.isLoaded = TRUE]
    /\ UNCHANGED <<regVars, toasts, navigations, oauth, st, timers, clock, user, served>>

handleGoogleRegisterSetsBusy ==
    /\ mounted
    /\ signUp.clicks < MaxGoogleClicks
    /\ signUp' = [signUp EXCEPT !.clicks = @ + 1, !.started = @ + 1, !.pending = @ + 1]
    /\ isLoading' = TRUE
    /\ UNCHANGED <<values, errors, isSubmitted, inFlight, registerCalls, mounted, result,
                   toasts, navigations, oauth, st, timers, clock, user, served>>

handleGoogleRegisterIgnoresLoaded ==
    /\ mounted
    /\ signUp.clicks < MaxGoogleClicks
    /\ signUp' = [signUp EXCEPT !.clicks = @ + 1, !.started = @ + 1, !.pending = @ + 1]
    /\ UNCHANGED <<regVars, toasts, navigations, oauth, st, timers, clock, user, served>>

\* handleGoogleRegister up to its await: if (!isLoaded) return; otherwise
\* signUp.authenticateWithRedirect(...) is called
handleGoogleRegister ==
    /\ mounted
    /\ signUp.clicks < MaxGoogleClicks
    /\ signUp' = IF ~signUp.isLoaded
                 THEN [signUp EXCEPT !.clicks = @ + 1]
                 ELSE [signUp EXCEPT !.clicks = @ + 1, !.started = @ + 1,
                                     !.pending = @ + 1]
    /\ UNCHANGED <<regVars, toasts, navigations, oauth, st, timers, clock, user, served>>

\* authenticateWithRedirect resolved: the browser leaves for the provider
GoogleRedirectResolved ==
    /\ signUp.pending > 0
    /\ signUp' = [signUp EXCEPT !.pending = @ - 1, !.outcomes = Append(@, "resolved")]
    /\ mounted' = FALSE
    /\ UNCHANGED <<values, errors, isSubmitted, isLoading, inFlight, registerCalls,
                   result, toasts, navigations, oauth, st, timers, clock, user, served>>

\* authenticateWithRedirect rejected: the catch branch emits the failure toast
GoogleRedirectRejected ==
    /\ signUp.pending > 0
    /\ signUp' = [signUp EXCEPT !.pending = @ - 1, !.outcomes = Append(@, "rejected")]
    /\ toasts' = Append(toasts, GoogleFailureToast)
    /\ UNCHANGED <<regVars, navigations, oauth, st, timers, clock, user, served>>

handleLineRegister ==
    /\ mounted
    /\ Len(toasts) < MaxSocialToasts
    /\ toasts' = Append(toasts, LineToast)
    /\ UNCHANGED <<regVars, signUp, user, served, navigations, oauth, st, timers, clock>>

handleOutlookRegister ==
    /\ mounted
    /\ Len(toasts) < MaxSocialToasts
    /\ toasts' = Append(toasts, OutlookToast)
    /\ UNCHANGED <<regVars, signUp, user, served, navigations, oauth, st, timers, clock>>

\* What the user types while the social buttons are in play: one complete,
\* valid registration
SocialFieldInputs(f) ==
    CASE f = "name" -> {JaneDoe}
      [] f = "email" -> {JaneEmail}
      [] f = "password" -> {Pw8}
      [] f = "confirmPassword" -> {Pw8}

SocialNext ==
    \/ \E f \in RenderedFields : \E v \in SocialFieldInputs(f) : SetField(f, v)
    \/ HandleSubmit
    \/ RegisterResolved
    \/ RegisterRejected
    \/ ClerkLoaded
    \/ handleGoogleRegister
    \/ GoogleRedirectResolved
    \/ GoogleRedirectRejected
    \/ handleLineRegister
    \/ handleOutlookRegister

----------------------------------------------------------------------------
(* formSchema applied on its own to every well-typed input *)

FormValues ==
    [name : NameInputs, email : EmailInputs, password : PasswordInputs,
     confirmPassword : PasswordInputs, role : Roles]

Validate ==
    /\ result' = <<validate(values)>>
    /\ result' # result
    /\ UNCHANGED <<values, errors, isSubmitted, isLoading, inFlight, registerCalls,
                   mounted, toasts, navigations, oauth, st, timers, clock,
                   signUp, user, served>>

----------------------------------------------------------------------------
(* OAuthCallback *)

DashboardPath == <<"/","d","a","s","h","b","o","a","r","d">>
SignInPath == <<"/","s","i","g","n","-","i","n">>

\* effectDue: the effect is scheduled to run after the current render (first
\* mount, or a render in which handleRedirectCallback or navigate has a new
\* identity); calls: handleRedirectCallback() invocations so far; pending:
\* invocations not yet settled; outcomes: how the settled ones ended.
OAuthInit ==
    oauth = [mounted |-> TRUE, effectDue |-> TRUE, calls |-> 0, pending |-> 0,
             outcomes |-> <<>>]

\* useEffect body: handleCallback() runs up to its await
OAuthRunEffect ==
    /\ oauth.mounted
    /\ oauth.effectDue
    /\ oauth' = [oauth EXCEPT !.effectDue = FALSE, !.calls = @ + 1, !.pending = @ + 1]
    /\ UNCHANGED <<regVars, signUp, user, served, toasts, navigations, st, timers, clock>>

\* A re-render in which handleRedirectCallback or navigate has a new identity:
\* the dependency array [handleRedirectCallback, navigate] differs, so React
\* schedules the effect again.
OAuthDepsChange ==
    /\ oauth.mounted
    /\ ~oauth.effectDue
    /\ oauth.calls < MaxOAuthCalls
    /\ oauth' = [oauth EXCEPT !.effectDue = TRUE]
    /\ UNCHANGED <<regVars, signUp, user, served, toasts, navigations, st, timers, clock>>

OAuthFailureGoesToDashboard == Navigation(DashboardPath, TRUE)

\* try branch: navigate("/dashboard", { replace: true })
OAuthSuccessNavigation == Navigation(DashboardPath, TRUE)

\* catch branch: navigate("/sign-in", { replace: true })
OAuthFailureNavigation == Navigation(SignInPath, TRUE)

\* handleRedirectCallback() resolved
OAuthResolved ==
    /\ oauth.pending > 0
    /\ oauth' = [oauth EXCEPT !.pending = @ - 1, !.outcomes = Append(@, "resolved")]
    /\ navigations' = Append(navigations, OAuthSuccessNavigation)
    /\ UNCHANGED <<regVars, signUp, user, served, toasts, st, timers, clock>>

\* handleRedirectCallback() rejected or threw
OAuthRejected ==
    /\ oauth.pending > 0
    /\ oauth' = [oauth EXCEPT !.pending = @ - 1, !.outcomes = Append(@, "rejected")]
    /\ navigations' = Append(navigations, OAuthFailureNavigation)
    /\ UNCHANGED <<regVars, signUp, user, served, toasts, st, timers, clock>>

\* The router stops rendering the callback page
OAuthUnmount ==
    /\ oauth.mounted
    /\ oauth' = [oauth EXCEPT !.mounted = FALSE, !.effectDue = FALSE]
    /\ UNCHANGED <<regVars, signUp, user, served, toasts, navigations, st, timers, clock>>

OAuthNext ==
    \/ OAuthRunEffect
    \/ OAuthDepsChange
    \/ OAuthResolved
    \/ OAuthRejected
    \/ OAuthUnmount

----------------------------------------------------------------------------
(* Settings *)

Organic == <<"O","r","g","a","n","i","c">>
EcoFriendly == <<"E","c","o","-","f","r","i","e","n","d","l","y">>
Health == <<"H","e","a","l","t","h">>
Sustainable == <<"S","u","s","t","a","i","n","a","b","l","e">>
VeganPadded == <<" ","V","e","g","a","n"," ">>

BreakfastFoods == <<"B","r","e","a","k","f","a","s","t"," ","F","o","o","d","s">>
Snacks == <<"S","n","a","c","k","s">>
Beverages == <<"B","e","v","e","r","a","g","e","s">>
Condiments == <<"C","o","n","d","i","m","e","n","t","s">>
DairyPadded == <<" ","D","a","i","r","y">>

TagInputs == {Empty, <<" ">>, Organic, VeganPadded}
CategoryInputs == {Empty, Snacks, DairyPadded}

Whitespace == {" "}

RECURSIVE TrimStart(_)
TrimStart(s) ==
    IF s # <<>> /\ Head(s) \in Whitespace THEN TrimStart(Tail(s)) ELSE s

RECURSIVE TrimEnd(_)
TrimEnd(s) ==
    IF s # <<>> /\ s[Len(s)] \in Whitespace
    THEN TrimEnd(SubSeq(s, 1, Len(s) - 1)) ELSE s

TrimNothing(s) == s

\* String.prototype.trim
Trim(s) == TrimEnd(TrimStart(s))

\* Array.prototype.includes
Includes(list, x) == \E i \in 1..Len(list) : list[i] = x

\* Array.prototype.filter(e => e !== x)
RECURSIVE Without(_, _)
Without(list, x) ==
    IF list = <<>> THEN <<>>
    ELSE IF Head(list) = x THEN Without(Tail(list), x)
    ELSE <<Head(list)>> \o Without(Tail(list), x)

\* An activity entry { action, timestamp }; action is t(key) followed by
\* ": " and the argument when there is one.
Activity(key, arg, now) == [action |-> [key |-> key, arg |-> arg], timestamp |-> now]

\* addToActivityLog, with the activityLog its closure holds
addToActivityLog(activityLog, key, arg, now) ==
    <<Activity(key, arg, now)>> \o activityLog

SettingsInit ==
    /\ st = [tags |-> <<Organic, EcoFriendly, Health, Sustainable>>,
             newTag |-> Empty,
             productCategories |-> <<BreakfastFoods, Snacks, Beverages, Condiments>>,
             newCategory |-> Empty,
             activityLog |-> <<Activity("Profile updated", Empty, 0),
                               Activity("New product added", Empty, -1),
                               Activity("Brand guidelines updated", Empty, -2)>>,
             currentPassword |-> Empty,
             newPassword |-> Empty,
             confirmPassword |-> Empty,
             twoFactorEnabled |-> FALSE,
             emailNotifications |-> TRUE,
             messageNotifications |-> TRUE,
             partnershipNotifications |-> TRUE,
             marketingNotifications |-> FALSE,
             isLoading |-> FALSE]
    /\ timers = <<>>
    /\ clock = 1

AuthSignInPath ==
    <<"/","a","u","t","h","?","t","y","p","e","=","s","i","g","n","i","n">>

SettingsRenderedAnyRole == user.mounted /\ user.isAuthenticated

\* if (!isAuthenticated || role !== "brand") return null;
\* the handlers below are bound to controls of the rendered page
SettingsRendered == user.mounted /\ user.isAuthenticated /\ user.role = "brand"

\* What useUser() can return: signed out, or signed in with one of the roles
UserStates ==
    [isAuthenticated : BOOLEAN, role : {"none", "manufacturer", "brand", "retailer"}]

\* The user context changes (sign-in, sign-out, another account): Settings
\* re-renders and, isAuthenticated or role being dependencies of its effect,
\* the effect is scheduled again
AuthChange(u) ==
    /\ user.mounted
    /\ u # [isAuthenticated |-> user.isAuthenticated, role |-> user.role]
    /\ user' = [user EXCEPT !.isAuthenticated = u.isAuthenticated, !.role = u.role,
                            !.effectDue = TRUE]
    /\ UNCHANGED <<regVars, signUp, served, toasts, navigations, oauth, st, timers, clock>>

\* Where the guard effect sends the user; <<>> when it lets the page stand
GuardDestination(u) ==
    IF ~u.isAuthenticated THEN AuthSignInPath
    ELSE IF u.role # "brand" THEN DashboardPath
    ELSE <<>>

\* The useEffect of Settings: navigate away unless a brand user is signed in;
\* the route change unmounts the page
SettingsGuardEffect ==
    /\ user.mounted
    /\ user.effectDue
    /\ IF GuardDestination(user) = <<>>
       THEN /\ user' = [user EXCEPT !.effectDue = FALSE]
            /\ navigations' = navigations
       ELSE /\ user' = [user EXCEPT !.effectDue = FALSE, !.mounted = FALSE]
            /\ navigations' = Append(navigations,
                                     Navigation(GuardDestination(user), FALSE))
    /\ UNCHANGED <<regVars, signUp, served, toasts, oauth, st, timers, clock>>

\* onChange of the tag input
SetNewTag(v) ==
    /\ SettingsRendered
    /\ st.newTag # v
    /\ st' = [st EXCEPT !.newTag = v]
    /\ UNCHANGED <<regVars, signUp, user, served, toasts, navigations, oauth, timers, clock>>

handleAddTagClearsOnReject ==
    /\ SettingsRendered
    /\ clock < MaxClock
    /\ IF Trim(st.newTag) # <<>> /\ ~Includes(st.tags, Trim(st.newTag))
       THEN /\ st' = [st EXCEPT
                        !.tags = Append(@, Trim(st.newTag)),
                        !.newTag = Empty,
                        !.activityLog = addToActivityLog(@, "added-new-tag",
                                                         Trim(st.newTag), clock)]
            /\ clock' = clock + 1
       ELSE /\ st' = [st EXCEPT !.newTag = Empty]
            /\ clock' = clock
    /\ UNCHANGED <<regVars, signUp, user, served, toasts, navigations, oauth, timers>>

handleAddTagChecksRawInput ==
    /\ SettingsRendered
    /\ clock < MaxClock
    /\ IF Trim(st.newTag) # <<>> /\ ~Includes(st.tags, st.newTag)
       THEN /\ st' = [st EXCEPT
                        !.tags = Append(@, Trim(st.newTag)),
                        !.newTag = Empty,
                        !.activityLog = addToActivityLog(@, "added-new-tag",
                                                         Trim(st.newTag), clock)]
            /\ clock' = clock + 1
       ELSE UNCHANGED <<st, clock>>
    /\ UNCHANGED <<regVars, signUp, user, served, toasts, navigations, oauth, timers>>

handleAddTag ==
    /\ SettingsRendered
    /\ clock < MaxClock
    /\ IF Trim(st.newTag) # <<>> /\ ~Includes(st.tags, Trim(st.newTag))
       THEN /\ st' = [st EXCEPT
                        !.tags = Append(@, Trim(st.newTag)),
                        !.newTag = Empty,
                        !.activityLog = addToActivityLog(@, "added-new-tag",
                                                         Trim(st.newTag), clock)]
            /\ clock' = clock + 1
       ELSE UNCHANGED <<st, clock>>
    /\ UNCHANGED <<regVars, signUp, user, served, toasts, navigations, oauth, timers>>

handleRemoveTag(tagToRemove) ==
    /\ SettingsRendered
    /\ clock < MaxClock
    /\ st' = [st EXCEPT
                !.tags = Without(@, tagToRemove),
                !.activityLog = addToActivityLog(@, "removed-tag", tagToRemove, clock)]
    /\ clock' = clock + 1
    /\ UNCHANGED <<regVars, signUp, user, served, toasts, navigations, oauth, timers>>

\* onChange of the category input
SetNewCategory(v) ==
    /\ SettingsRendered
    /\ st.newCategory # v
    /\ st' = [st EXCEPT !.newCategory = v]
    /\ UNCHANGED <<regVars, signUp, user, served, toasts, navigations, oauth, timers, clock>>

handleAddCategoryKeepsInput ==
    /\ SettingsRendered
    /\ clock < MaxClock
    /\ IF Trim(st.newCategory) # <<>>
          /\ ~Includes(st.productCategories, Trim(st.newCategory))
       THEN /\ st' = [st EXCEPT
                        !.productCategories = Append(@, Trim(st.newCategory)),
                        !.activityLog = addToActivityLog(@, "added-new-product-category",
                                                         Trim(st.newCategory), clock)]
            /\ clock' = clock + 1
       ELSE UNCHANGED <<st, clock>>
    /\ UNCHANGED <<regVars, signUp, user, served, toasts, navigations, oauth, timers>>

handleAddCategory ==
    /\ SettingsRendered
    /\ clock < MaxClock
    /\ IF Trim(st.newCategory) # <<>>
          /\ ~Includes(st.productCategories, Trim(st.newCategory))
       THEN /\ st' = [st EXCEPT
                        !.productCategories = Append(@, Trim(st.newCategory)),
                        !.newCategory = Empty,
                        !.activityLog = addToActivityLog(@, "added-new-product-category",
                                                         Trim(st.newCategory), clock)]
            /\ clock' = clock + 1
       ELSE UNCHANGED <<st, clock>>
    /\ UNCHANGED <<regVars, signUp, user, served, toasts, navigations, oauth, timers>>

handleRemoveCategory(categoryToRemove) ==
    /\ SettingsRendered
    /\ clock < MaxClock
    /\ st' = [st EXCEPT
                !.productCategories = Without(@, categoryToRemove),
                !.activityLog = addToActivityLog(@, "removed-product-category",
                                                 categoryToRemove, clock)]
    /\ clock' = clock + 1
    /\ UNCHANGED <<regVars, signUp, user, served, toasts, navigations, oauth, timers>>

\* The setTimeout callback a save handler registers: which handler made it,
\* and the activityLog of the render in which the handler ran.
Timer(handler) == [handler |-> handler, activityLog |-> st.activityLog]

SaveAlwaysEnabled == TRUE

\* Every save button carries disabled={isLoading}
SaveEnabled == ~st.isLoading

\* Room left for the notification a save will emit
ToastRoom == Len(toasts) + Len(timers) < MaxToasts

\* The common part of the save handlers: setIsLoading(true); setTimeout(...)
StartSave(handler) ==
    /\ SettingsRendered
    /\ SaveEnabled
    /\ ToastRoom
    /\ st' = [st EXCEPT !.isLoading = TRUE]
    /\ timers' = Append(timers, Timer(handler))
    /\ UNCHANGED <<regVars, signUp, user, served, toasts, navigations, oauth, clock>>

handleSaveGeneralChecksPasswords ==
    /\ SettingsRendered
    /\ SaveEnabled
    /\ ToastRoom
    /\ IF st.newPassword # <<>> /\ st.newPassword # st.confirmPassword
       THEN /\ toasts' = Append(toasts, [title |-> "passwords-dont-match",
                                         variant |-> "destructive"])
            /\ st' = [st EXCEPT !.isLoading = FALSE]
            /\ timers' = timers
       ELSE /\ st' = [st EXCEPT !.isLoading = TRUE]
            /\ timers' = Append(timers, Timer("general"))
            /\ toasts' = toasts
    /\ UNCHANGED <<regVars, signUp, user, served, navigations, oauth, clock>>

handleSaveGeneral == StartSave("general")

handleSaveBranding == StartSave("branding")

handleSaveNotifications == StartSave("notifications")

SaveToast(handler) ==
    CASE handler = "general" -> [title |-> "settings-updated", variant |-> "default"]
      [] handler = "brand" -> [title |-> "brand-details-updated", variant |-> "default"]
      [] handler = "branding" -> [title |-> "brand-settings-updated", variant |-> "default"]
      [] handler = "notifications" ->
            [title |-> "notification-preferences-updated", variant |-> "default"]
      [] handler = "security" -> [title |-> "security-settings-saved", variant |-> "default"]

\* The handlers whose timeout callback calls addToActivityLog
LoggingHandlers == {"general", "brand"}

LogKey(handler) ==
    CASE handler = "general" -> "updated-general-settings"
      [] handler = "brand" -> "updated-brand-details"

TimerFiredKeepsBusy ==
    /\ timers # <<>>
    /\ toasts' = Append(toasts, SaveToast(Head(timers).handler))
    /\ timers' = Tail(timers)
    /\ UNCHANGED <<regVars, signUp, user, served, navigations, oauth, st, clock>>

\* The 1000 ms timeout of the oldest pending save elapses and its callback runs
TimerFired ==
    /\ timers # <<>>
    /\ LET timer == Head(timers)
       IN  /\ toasts' = Append(toasts, SaveToast(timer.handler))
           /\ IF timer.handler \in LoggingHandlers
              THEN /\ st' = [st EXCEPT
                               !.isLoading = FALSE,
                               !.activityLog = addToActivityLog(timer.activityLog,
                                                   LogKey(timer.handler), Empty, clock)]
                   /\ clock' = clock + 1
              ELSE /\ st' = [st EXCEPT !.isLoading = FALSE]
                   /\ clock' = clock
    /\ timers' = Tail(timers)
    /\ UNCHANGED <<regVars, signUp, user, served, navigations, oauth>>

SettingsNext ==
    \/ \E v \in TagInputs : SetNewTag(v)
    \/ handleAddTag
    \/ \E i \in 1..Len(st.tags) : handleRemoveTag(st.tags[i])
    \/ \E v \in CategoryInputs : SetNewCategory(v)
    \/ handleAddCategory
    \/ \E i \in 1..Len(st.productCategories) : handleRemoveCategory(st.productCategories[i])
    \/ handleSaveGeneral
    \/ TimerFired

----------------------------------------------------------------------------
(* Settings: the security tab *)

PwX == <<"x">>
PwY == <<"y">>
PwOld == <<"o","l","d">>

CurrentPasswordInputs == {Empty, PwOld}
NewPasswordInputs == {Empty, PwX}
ConfirmPasswordInputs == {Empty, PwX, PwY}

MismatchToast == [title |-> "passwords-dont-match", variant |-> "destructive"]

\* onChange of the three password inputs
SetCurrentPassword(v) ==
    /\ SettingsRendered
    /\ st.currentPassword # v
    /\ st' = [st EXCEPT !.currentPassword = v]
    /\ UNCHANGED <<regVars, signUp, user, served, toasts, navigations, oauth, timers, clock>>

SetNewPassword(v) ==
    /\ SettingsRendered
    /\ st.newPassword # v
    /\ st' = [st EXCEPT !.newPassword = v]
    /\ UNCHANGED <<regVars, signUp, user, served, toasts, navigations, oauth, timers, clock>>

SetConfirmPassword(v) ==
    /\ SettingsRendered
    /\ st.confirmPassword # v
    /\ st' = [st EXCEPT !.confirmPassword = v]
    /\ UNCHANGED <<regVars, signUp, user, served, toasts, navigations, oauth, timers, clock>>

\* onCheckedChange of the two-factor switch
SetTwoFactorEnabled(v) ==
    /\ SettingsRendered
    /\ st.twoFactorEnabled # v
    /\ st' = [st EXCEPT !.twoFactorEnabled = v]
    /\ UNCHANGED <<regVars, signUp, user, served, toasts, navigations, oauth, timers, clock>>

NotificationSwitches ==
    {"emailNotifications", "messageNotifications", "partnershipNotifications",
     "marketingNotifications"}

\* onCheckedChange of the four notification switches
SetNotification(f, v) ==
    /\ SettingsRendered
    /\ st[f] # v
    /\ st' = [st EXCEPT ![f] = v]
    /\ UNCHANGED <<regVars, signUp, user, served, toasts, navigations, oauth, timers, clock>>

PasswordsDontMatchStrict == st.newPassword # st.confirmPassword

\* if (newPassword && newPassword !== confirmPassword)
PasswordsDontMatch == st.newPassword # <<>> /\ st.newPassword # st.confirmPassword

handleSaveSecurityStaysBusy ==
    /\ SettingsRendered
    /\ SaveEnabled
    /\ ToastRoom
    /\ IF PasswordsDontMatch
       THEN /\ toasts' = Append(toasts, MismatchToast)
            /\ st' = [st EXCEPT !.isLoading = TRUE]
            /\ timers' = timers
       ELSE /\ st' = [st EXCEPT !.isLoading = TRUE]
            /\ timers' = Append(timers, Timer("security"))
            /\ toasts' = toasts
    /\ UNCHANGED <<regVars, signUp, user, served, navigations, oauth, clock>>

handleSaveSecurityNoReturn ==
    /\ SettingsRendered
    /\ SaveEnabled
    /\ ToastRoom
    /\ IF PasswordsDontMatch
       THEN /\ toasts' = Append(toasts, MismatchToast)
            /\ st' = [st EXCEPT !.isLoading = FALSE]
            /\ timers' = Append(timers, Timer("security"))
       ELSE /\ st' = [st EXCEPT !.isLoading = TRUE]
            /\ timers' = Append(timers, Timer("security"))
            /\ toasts' = toasts
    /\ UNCHANGED <<regVars, signUp, user, served, navigations, oauth, clock>>

\* setIsLoading(true), then either the abort (setIsLoading(false), toast,
\* return) or the timeout; the two state updates of the abort are batched.
handleSaveSecurity ==
    /\ SettingsRendered
    /\ SaveEnabled
    /\ ToastRoom
    /\ IF PasswordsDontMatch
       THEN /\ toasts' = Append(toasts, MismatchToast)
            /\ st' = [st EXCEPT !.isLoading = FALSE]
            /\ timers' = timers
       ELSE /\ st' = [st EXCEPT !.isLoading = TRUE]
            /\ timers' = Append(timers, Timer("security"))
            /\ toasts' = toasts
    /\ UNCHANGED <<regVars, signUp, user, served, navigations, oauth, clock>>

SecurityNext ==
    \/ \E v \in CurrentPasswordInputs : SetCurrentPassword(v)
    \/ \E v \in NewPasswordInputs : SetNewPassword(v)
    \/ \E v \in ConfirmPasswordInputs : SetConfirmPassword(v)
    \/ \E v \in BOOLEAN : SetTwoFactorEnabled(v)
    \/ handleSaveSecurity
    \/ handleSaveGeneral
    \/ handleSaveBranding
    \/ handleSaveNotifications
    \/ TimerFired

\* Settings with its guard: the user context changes under the page
GuardNext ==
    \/ \E u \in UserStates : AuthChange(u)
    \/ SettingsGuardEffect
    \/ \E v \in TagInputs : SetNewTag(v)
    \/ handleAddTag
    \/ \E i \in 1..Len(st.productCategories) : handleRemoveCategory(st.productCategories[i])
    \/ handleSaveGeneral
    \/ handleSaveSecurity
    \/ TimerFired

SectionsNext ==
    \/ SecurityNext
    \/ \E f \in NotificationSwitches : \E v \in BOOLEAN : SetNotification(f, v)

----------------------------------------------------------------------------
(* nginx: the server block listening on port 443 *)

MaxRequests == 3

RootPath == <<"/">>
IndexPath == <<"/","i","n","d","e","x",".","h","t","m","l">>
AssetsPrefix == <<"/","a","s","s","e","t","s">>
AssetPath == <<"/","a","s","s","e","t","s","/","a",".","j","s">>
MissingAssetPath == <<"/","a","s","s","e","t","s","/","x",".","j","s">>
FaviconPath == <<"/","f","a","v","i","c","o","n",".","i","c","o">>
DashboardRoute == <<"/","d","a","s","h","b","o","a","r","d">>

\* The files of the Vite build copied to /usr/share/nginx/html
DocumentRoot == {IndexPath, AssetPath, FaviconPath}

RequestPaths ==
    {RootPath, IndexPath, AssetPath, MissingAssetPath, FaviconPath, DashboardRoute}

IsPrefix(p, s) == Len(p) <= Len(s) /\ SubSeq(s, 1, Len(p)) = p

Header(name, value) == [name |-> name, value |-> value]

\* add_header directives written at server level
SecurityHeaders ==
    {Header("X-Frame-Options", "SAMEORIGIN"),
     Header("X-XSS-Protection", "1; mode=block"),
     Header("X-Content-Type-Options", "nosniff")}

\* The two location blocks: prefix, whether try_files falls back to
\* /index.html, the expires directive, and the add_header directives written
\* inside the block
Locations ==
    {[prefix |-> RootPath, fallback |-> TRUE, expires |-> "off", add_header |-> {}],
     [prefix |-> AssetsPrefix, fallback |-> FALSE, expires |-> "1y",
      add_header |-> {Header("Cache-Control", "public, no-transform")}]}

\* Prefix locations: the longest matching prefix wins
MatchLocation(uri) ==
    CHOOSE l \in Locations :
        /\ IsPrefix(l.prefix, uri)
        /\ \A m \in Locations : IsPrefix(m.prefix, uri) => Len(m.prefix) <= Len(l.prefix)

\* add_header directives are inherited from the enclosing level if and only
\* if the current level defines no add_header of its own
EffectiveAddHeaders(l) == IF l.add_header = {} THEN SecurityHeaders ELSE l.add_header

\* Without "always", add_header and expires apply to these status codes only
HeaderStatuses == {200, 201, 204, 206, 301, 302, 303, 304, 307, 308}

\* Headers produced by "expires 1y"
ExpiresHeaders(l) ==
    IF l.expires = "1y"
    THEN {Header("Expires", "+1y"), Header("Cache-Control", "max-age=31536000")}
    ELSE {}

\* The file a request resolves to: the file itself, the index of the root
\* directory, or for try_files the last parameter /index.html; <<>> is none
Resolve(uri, l) ==
    IF uri \in DocumentRoot THEN uri
    ELSE IF uri = RootPath THEN IndexPath
    ELSE IF l.fallback THEN IndexPath
    ELSE <<>>

Respond(uri) ==
    LET l == MatchLocation(uri)
        file == Resolve(uri, l)
        status == IF file = <<>> THEN 404 ELSE 200
    IN  [status |-> status,
         file |-> file,
         headers |-> IF status \in HeaderStatuses
                     THEN EffectiveAddHeaders(l) \cup ExpiresHeaders(l)
                     ELSE {}]

NginxInit == served = <<>>

\* One HTTPS request is answered
Serve(uri) ==
    /\ Len(served) < MaxRequests
    /\ served' = Append(served, [uri |-> uri, response |-> Respond(uri)])
    /\ UNCHANGED <<regVars, signUp, user, toasts, navigations, oauth, st, timers, clock>>

NginxNext == \E uri \in RequestPaths : Serve(uri)

----------------------------------------------------------------------------
(* Specifications *)

\* useUser() of a signed-in brand account, Settings on screen with its effect
\* about to run
BrandUser == [isAuthenticated |-> TRUE, role |-> "brand", mounted |-> TRUE,
              effectDue |-> TRUE]

Init ==
    /\ RegInit
    /\ SignUpInit
    /\ OAuthInit
    /\ SettingsInit
    /\ user = BrandUser
    /\ NginxInit
    /\ toasts = <<>>
    /\ navigations = <<>>

\* RegisterForm
Next == RegNext

Spec == Init /\ [][Next]_vars

\* formSchema on every well-typed input
InitValidate ==
    /\ values \in FormValues
    /\ errors = NoFieldErrors
    /\ isSubmitted = FALSE
    /\ isLoading = FALSE
    /\ inFlight = <<>>
    /\ registerCalls = <<>>
    /\ mounted = TRUE
    /\ result = <<>>
    /\ SignUpInit
    /\ OAuthInit
    /\ SettingsInit
    /\ user = BrandUser
    /\ NginxInit
    /\ toasts = <<>>
    /\ navigations = <<>>

NextValidate == Validate

SpecValidate == InitValidate /\ [][NextValidate]_vars

\* RegisterForm with its social registration buttons
SpecSocial == Init /\ [][SocialNext]_vars

\* Settings opened by any user
InitGuard ==
    /\ RegInit
    /\ SignUpInit
    /\ OAuthInit
    /\ SettingsInit
    /\ NginxInit
    /\ toasts = <<>>
    /\ navigations = <<>>
    /\ \E u \in UserStates :
          user = [isAuthenticated |-> u.isAuthenticated, role |-> u.role,
                  mounted |-> TRUE, effectDue |-> TRUE]

SpecGuard == InitGuard /\ [][GuardNext]_vars

\* nginx, port 443
SpecNginx == Init /\ [][NginxNext]_vars

\* OAuthCallback
SpecOAuth == Init /\ [][OAuthNext]_vars

\* Settings: the tag and category editors, the activity log and the save
\* that writes to it
SpecSettings == Init /\ [][SettingsNext]_vars

\* Settings: the security tab and the four save buttons
SpecSecurity == Init /\ [][SecurityNext]_vars

\* Settings: the security tab, the notification switches and the save buttons
SpecSections == Init /\ [][SectionsNext]_vars

\* The browser runs a timeout callback once its delay has elapsed
SpecSecurityFair == SpecSecurity /\ WF_vars(TimerFired)

----------------------------------------------------------------------------
(* Properties of RegisterForm *)

ValidEmails == {JaneEmail, PlusEmail}

PlusEmailEncoded == <<"a","%","2","B","b","%","4","0","x",".","c","o">>

\* What the address bar must show for each valid e-mail input
ExpectedEncoding(email) == IF email = JaneEmail THEN JaneEmailEncoded ELSE PlusEmailEncoded

\* The five field rules and the equality rule, stated on the raw input
MeetsAllRules(data) ==
    /\ Len(data.name) >= 2
    /\ data.email \in ValidEmails
    /\ Len(data.password) >= 8
    /\ Len(data.confirmPassword) >= 8
    /\ data.role \in {"manufacturer", "brand", "retailer"}
    /\ data.password = data.confirmPassword

\* C1: register is invoked only for an input that passes validation; from a
\* state whose input breaks a rule no step adds a register call, and a submit
\* of a name shorter than 2 leaves the name-length error on the name field.
C1_RegisterOnlyWhenValid ==
    [][ /\ ~MeetsAllRules(values) => registerCalls' = registerCalls
        /\ (HandleSubmit /\ Len(values.name) < 2) => errors'["name"] = NameMsg
      ]_vars

C1_Witness ==
    /\ isSubmitted
    /\ Len(values.name) < 2
    /\ errors["name"] = NameMsg
    /\ registerCalls = <<>>

\* C2: at most one register call is in flight at any time, and no step starts
\* a register call while one is in flight.
C2_AtMostOneInFlight ==
    [][ /\ Len(inFlight') <= 1
        /\ inFlight # <<>> => registerCalls' = registerCalls
      ]_vars

C2_Witness ==
    /\ Len(registerCalls) = 2
    /\ Len(inFlight) = 1
    /\ isLoading

\* C3: whenever no submission is in flight the busy flag is false: before the
\* first submit and after every completion, resolved or rejected.
C3_BusyFlagRestored == inFlight = <<>> => ~isLoading

C3_Witness ==
    /\ toasts = <<FailureToast, SuccessToast>>
    /\ inFlight = <<>>
    /\ ~isLoading

\* C6: a submit of a valid input calls register exactly once with that input;
\* when the call resolves the form emits the success notification and
\* navigates to /verify-email?email=<percent-encoded submitted e-mail>; no
\* navigation happens in a step that does not complete a register call.
C6_SubmitThenNavigate ==
    [][ /\ (HandleSubmit /\ MeetsAllRules(values)) =>
               /\ Len(registerCalls') = Len(registerCalls) + 1
               /\ registerCalls'[Len(registerCalls')].email = values.email
               /\ registerCalls'[Len(registerCalls')].name = values.name
               /\ navigations' = navigations
        /\ RegisterResolved =>
               /\ toasts' = Append(toasts, SuccessToast)
               /\ navigations' = Append(navigations,
                     [to |-> VerifyEmailPrefix
                               \o ExpectedEncoding(registerCalls[Len(registerCalls)].email),
                      replace |-> FALSE])
        /\ navigations' # navigations => Len(inFlight') < Len(inFlight)
      ]_vars

C6_Witness ==
    /\ Len(registerCalls) = 1
    /\ registerCalls[1].name = JaneDoe
    /\ registerCalls[1].email = JaneEmail
    /\ registerCalls[1].password = Pw8
    /\ toasts = <<SuccessToast>>
    /\ navigations = <<[to |-> VerifyEmailPrefix \o JaneEmailEncoded, replace |-> FALSE]>>

\* C7: when register rejects, the form emits the failure notification, does
\* not navigate, emits no success notification and keeps every field value.
C7_FailureKeepsInput ==
    [][ RegisterRejected =>
            /\ toasts' = Append(toasts, FailureToast)
            /\ navigations' = navigations
            /\ values' = values
      ]_vars

C7_Witness ==
    /\ toasts = <<FailureToast>>
    /\ navigations = <<>>
    /\ inFlight = <<>>
    /\ mounted
    /\ values.name = JaneDoe
    /\ values.email = JaneEmail
    /\ values.password = Pw8
    /\ values.confirmPassword = Pw8

----------------------------------------------------------------------------
(* Properties of formSchema *)

\* C4: an input validates successfully exactly when name has length >= 2, the
\* e-mail is well formed, password and confirmPassword have length >= 8, the
\* role is one of the three roles, and password equals confirmPassword.
C4_ValidIffAllRules ==
    result # <<>> => (result[1].ok <=> MeetsAllRules(values))

C4_Witness ==
    /\ result # <<>>
    /\ result[1].ok
    /\ values.name = JaneDoe
    /\ values.email = JaneEmail
    /\ values.role = "brand"

\* C5: when password differs from confirmPassword validation fails, a
\* passwords-do-not-match error is reported, every such error is on the
\* confirmPassword field, and that field carries an error in the form.
C5_MismatchOnConfirmPassword ==
    (result # <<>> /\ values.password # values.confirmPassword) =>
        /\ ~result[1].ok
        /\ \E i \in 1..Len(result[1].issues) : result[1].issues[i].message = MismatchMsg
        /\ \A i \in 1..Len(result[1].issues) :
              result[1].issues[i].message = MismatchMsg =>
                  result[1].issues[i].path = "confirmPassword"
        /\ result[1].fieldErrors["confirmPassword"] # NoError
        /\ result[1].fieldErrors["password"] # MismatchMsg

C5_Witness ==
    /\ result # <<>>
    /\ values.name = JaneDoe
    /\ values.email = JaneEmail
    /\ values.password = Pw8
    /\ values.confirmPassword = Pw8b
    /\ result[1].issues = <<[path |-> "confirmPassword", message |-> MismatchMsg]>>
    /\ result[1].fieldErrors["confirmPassword"] = MismatchMsg

----------------------------------------------------------------------------
(* Properties of OAuthCallback *)

\* C8: handleRedirectCallback is invoked exactly once per mount: never a
\* second time, and once the effect has run it has been invoked.
C8_ExactlyOneCall ==
    /\ oauth.calls <= 1
    /\ (oauth.mounted /\ ~oauth.effectDue) => oauth.calls >= 1

\* C9: every completion of the handshake call adds exactly one navigation,
\* chosen by its outcome: /dashboard when it resolved, /sign-in when it
\* rejected, both replacing the history entry.
C9_DestinationByOutcome ==
    /\ Len(navigations) = Len(oauth.outcomes)
    /\ \A i \in 1..Len(navigations) :
          navigations[i] =
              IF oauth.outcomes[i] = "resolved"
              THEN [to |-> DashboardPath, replace |-> TRUE]
              ELSE [to |-> SignInPath, replace |-> TRUE]

C9_Witness ==
    /\ oauth.outcomes = <<"rejected">>
    /\ oauth.pending = 0
    /\ navigations = <<[to |-> SignInPath, replace |-> TRUE]>>

----------------------------------------------------------------------------
(* Properties of Settings *)

\* C10: the activity log is append-only and most-recent-first: every step
\* that changes it puts one new entry in front of the log as it was.
C10_LogAppendOnly ==
    [][ st'.activityLog # st.activityLog =>
            /\ Len(st'.activityLog) = Len(st.activityLog) + 1
            /\ Tail(st'.activityLog) = st.activityLog
      ]_vars

\* C11: when newPassword is non-empty and differs from confirmPassword, the
\* security save aborts: it emits the failure notification, registers no
\* timeout, leaves the four security fields unchanged and the busy flag false.
C11_SecurityMismatchAborts ==
    [][ (handleSaveSecurity /\ st.newPassword # <<>>
            /\ st.newPassword # st.confirmPassword) =>
            /\ toasts' = Append(toasts, [title |-> "passwords-dont-match",
                                         variant |-> "destructive"])
            /\ timers' = timers
            /\ st'.currentPassword = st.currentPassword
            /\ st'.newPassword = st.newPassword
            /\ st'.confirmPassword = st.confirmPassword
            /\ st'.twoFactorEnabled = st.twoFactorEnabled
            /\ ~st'.isLoading
      ]_vars

C11_Witness ==
    /\ st.newPassword = PwX
    /\ st.confirmPassword = PwY
    /\ toasts = <<MismatchToast>>
    /\ timers = <<>>
    /\ ~st.isLoading

\* C12: the completion of every save action (general, brand, notifications,
\* security) puts one new entry at the head of the activity log, besides
\* clearing the busy flag and emitting a notification.
C12_EverySaveLogs ==
    [][ TimerFired =>
            /\ st'.activityLog # st.activityLog
            /\ Head(st'.activityLog).timestamp = clock
            /\ ~st'.isLoading
            /\ Len(toasts') = Len(toasts) + 1
      ]_vars

\* C13: a save that has started its timeout eventually completes; its
\* completion clears the busy flag and emits exactly one success
\* notification, and no success notification is emitted otherwise.
C13_SaveCompletes ==
    /\ st.isLoading ~> ~st.isLoading
    /\ (timers # <<>>) ~> (timers = <<>>)
    /\ [][ /\ Len(timers') < Len(timers) =>
                /\ ~st'.isLoading
                /\ Len(toasts') = Len(toasts) + 1
                /\ toasts'[Len(toasts')].variant = "default"
           /\ (Len(toasts') > Len(toasts) /\ toasts'[Len(toasts')].variant = "default") =>
                Len(timers') = Len(timers) - 1
         ]_vars

C13_Witness ==
    /\ Len(toasts) = 2
    /\ toasts[1].title = "security-settings-saved"
    /\ toasts[2].title = "settings-updated"
    /\ timers = <<>>
    /\ ~st.isLoading

\* C14 as stated: while a save is pending, the save action of another section
\* can still be started.
C14_ConcurrentSavesPermitted == timers # <<>> => SaveEnabled

\* C14 as amended: all save buttons share one busy flag, so while a save is
\* pending no save can be started and at most one save is in flight.
C14_SavesSerialized ==
    [][ /\ Len(timers') <= 1
        /\ timers # <<>> => Len(timers') <= Len(timers)
        /\ Len(timers') > Len(timers) => (~st.isLoading /\ st'.isLoading)
      ]_vars

C14_Witness ==
    /\ Len(toasts) = 1
    /\ toasts[1].title = "settings-updated"
    /\ Len(timers) = 1
    /\ timers[1].handler = "security"
    /\ st.isLoading

\* The editable fields of the general, brand, notification and security tabs
SectionFields(s) ==
    <<s.tags, s.newTag, s.productCategories, s.newCategory,
      s.emailNotifications, s.messageNotifications, s.partnershipNotifications,
      s.marketingNotifications,
      s.currentPassword, s.newPassword, s.confirmPassword, s.twoFactorEnabled>>

\* C15: the general, brand and notification saves start their timeout
\* whatever newPassword and confirmPassword hold and emit no failure
\* notification; no save action and no save completion changes a field of
\* any section.
C15_SavesIndependent ==
    [][ /\ (handleSaveGeneral \/ handleSaveBranding \/ handleSaveNotifications) =>
                /\ Len(timers') = Len(timers) + 1
                /\ toasts' = toasts
                /\ st'.isLoading
        /\ (handleSaveGeneral \/ handleSaveBranding \/ handleSaveNotifications
                \/ handleSaveSecurity \/ TimerFired) =>
                SectionFields(st') = SectionFields(st)
      ]_vars

C15_Witness ==
    /\ st.newPassword = PwX
    /\ st.confirmPassword = PwY
    /\ ~st.emailNotifications
    /\ Len(timers) = 1
    /\ timers[1].handler = "notifications"
    /\ Len(toasts) = 1
    /\ toasts[1].title = "settings-updated"

\* No two positions of the list hold the same text
NoDuplicates(list) ==
    \A i, j \in 1..Len(list) : list[i] = list[j] => i = j

\* The text has a character that is not a blank
HasVisibleCharacter(text) == \E k \in 1..Len(text) : text[k] # " "

Vegan == <<"V","e","g","a","n">>
Dairy == <<"D","a","i","r","y">>

\* C16: the tag list and the category list never hold an entry twice, and an
\* add whose input is already in the list changes nothing and reports nothing.
C16_NoDuplicates ==
    /\ [](NoDuplicates(st.tags) /\ NoDuplicates(st.productCategories))
    /\ [][ /\ (handleAddTag /\ \E i \in 1..Len(st.tags) : st.tags[i] = st.newTag) =>
                (st'.tags = st.tags /\ toasts' = toasts)
           /\ (handleAddCategory /\ \E i \in 1..Len(st.productCategories) :
                                        st.productCategories[i] = st.newCategory) =>
                (st'.productCategories = st.productCategories /\ toasts' = toasts)
         ]_vars

C16_Witness ==
    /\ st.newTag = Organic
    /\ st.tags = <<Organic, EcoFriendly, Health, Sustainable, Vegan>>
    /\ st.newCategory = Snacks
    /\ st.productCategories = <<BreakfastFoods, Snacks, Beverages, Condiments, Dairy>>

\* C17: neither list ever holds an empty or blank-only entry.
C17_NoBlankEntries ==
    /\ \A i \in 1..Len(st.tags) : HasVisibleCharacter(st.tags[i])
    /\ \A i \in 1..Len(st.productCategories) : HasVisibleCharacter(st.productCategories[i])

C17_Witness ==
    /\ st.newTag = <<" ">>
    /\ st.newCategory = Empty
    /\ Len(st.tags) = 5
    /\ Len(st.productCategories) = 5

\* C18: no register call carries a name that is empty or made of blanks only.
C18_BlankNameRejected ==
    \A i \in 1..Len(registerCalls) : HasVisibleCharacter(registerCalls[i].name)

\* Some field-level rule fails, stated on the raw input
SomeFieldRuleFails(data) ==
    \/ Len(data.name) < 2
    \/ data.email \notin ValidEmails
    \/ Len(data.password) < 8
    \/ Len(data.confirmPassword) < 8
    \/ data.role \notin {"manufacturer", "brand", "retailer"}

HasMismatchIssue(issues) == \E i \in 1..Len(issues) : issues[i].message = MismatchMsg

\* C19 as stated: when at least one field-level rule fails, the validation
\* result holds no passwords-do-not-match error.
C19_RefineOnlyAfterFieldRules ==
    (result # <<>> /\ SomeFieldRuleFails(values)) => ~HasMismatchIssue(result[1].issues)

\* C19 as amended: for a well-typed input the equality rule is evaluated after
\* the field rules whether or not they pass: the result holds the
\* passwords-do-not-match error exactly when password differs from
\* confirmPassword, and that error follows every field-level error.
C19_RefineRunsAfterFieldRules ==
    result # <<>> =>
        /\ HasMismatchIssue(result[1].issues) <=> values.password # values.confirmPassword
        /\ \A i \in 1..Len(result[1].issues) :
              result[1].issues[i].message = MismatchMsg => i = Len(result[1].issues)

C19_Witness ==
    /\ result # <<>>
    /\ values.name = <<"J">>
    /\ values.email = JaneEmail
    /\ values.password = Pw8
    /\ values.confirmPassword = Pw8b
    /\ result[1].issues = <<[path |-> "name", message |-> NameMsg],
                            [path |-> "confirmPassword", message |-> MismatchMsg]>>

----------------------------------------------------------------------------
(* Lifecycle of the registration input *)

\* C22 as stated: when a submit completes, on success or on failure, the form
\* state is replaced by the empty default values.
C22_FormResetAfterSubmit ==
    [][ (RegisterResolved \/ RegisterRejected) => values' = defaultValues ]_vars

\* C22 amended: the completion of a submit never rewrites the form state. On
\* success the form is left by navigation (it unmounts still holding the
\* submitted values); on failure it stays on screen with the values intact.
C22_FormKeptAfterSubmit ==
    [][ /\ RegisterResolved => (values' = values /\ ~mounted')
        /\ RegisterRejected => (values' = values /\ mounted' = mounted)
        /\ (Len(inFlight') < Len(inFlight) /\ values # defaultValues) =>
               values' # defaultValues
      ]_vars

C22_Witness ==
    /\ toasts = <<FailureToast, SuccessToast>>
    /\ ~mounted
    /\ values.name = JaneDoe
    /\ values.email = JaneEmail
    /\ values.password = Pw8

\* C26: the role field holds "manufacturer" in every reachable state of the
\* form (it starts at that default and has no rendered control), and every
\* payload handed to register carries role "manufacturer".
C26_RoleAlwaysManufacturer ==
    /\ values.role = "manufacturer"
    /\ \A i \in 1..Len(registerCalls) : registerCalls[i].role = "manufacturer"

C26_Witness ==
    /\ Len(registerCalls) = 2
    /\ registerCalls[1].email # registerCalls[2].email
    /\ registerCalls[2].role = "manufacturer"

----------------------------------------------------------------------------
(* The busy flag and the security save of Settings *)

\* C24: in every reachable state of the settings editor the busy flag is true
\* exactly when a save's timeout is pending, and at most one timeout is
\* pending.
C24_BusyIffTimerPending ==
    /\ st.isLoading <=> timers # <<>>
    /\ Len(timers) <= 1

C24_Witness ==
    /\ toasts = <<MismatchToast, SaveToast("notifications")>>
    /\ Len(timers) = 1
    /\ timers[1].handler = "security"
    /\ st.isLoading

\* C25: with newPassword empty the security save skips the equality check:
\* whatever confirmPassword and currentPassword hold it emits no failure
\* toast, sets the busy flag and schedules the persistence timeout, whose
\* callback emits the success toast and clears the busy flag.
C25_EmptyNewPasswordSkipsCheck ==
    [][ /\ (handleSaveSecurity /\ st.newPassword = Empty) =>
               /\ toasts' = toasts
               /\ st'.isLoading
               /\ Len(timers') = Len(timers) + 1
               /\ timers'[Len(timers')].handler = "security"
        /\ (TimerFired /\ Head(timers).handler = "security") =>
               /\ toasts' = Append(toasts, [title |-> "security-settings-saved",
                                            variant |-> "default"])
               /\ ~st'.isLoading
      ]_vars

C25_Witness ==
    /\ st.newPassword = Empty
    /\ st.confirmPassword = PwY
    /\ st.currentPassword = Empty
    /\ toasts = <<[title |-> "security-settings-saved", variant |-> "default"]>>
    /\ ~st.isLoading
    /\ timers = <<>>

----------------------------------------------------------------------------
(* The tag and category editors of Settings *)

Blanks(n) == [k \in 1..n |-> " "]

\* x is raw without its leading and trailing blanks
IsTrimOf(x, raw) ==
    /\ x = <<>> \/ (x[1] # " " /\ x[Len(x)] # " ")
    /\ \E a, b \in 0..Len(raw) :
          /\ a + b + Len(x) = Len(raw)
          /\ raw = Blanks(a) \o x \o Blanks(b)

\* The add is to be rejected: the input is empty or blank, or the list
\* already holds the input's trimmed form
RejectedInput(raw, list) ==
    \/ ~HasVisibleCharacter(raw)
    \/ \E i \in 1..Len(list) : IsTrimOf(list[i], raw)

\* C27: a rejected add (input empty, blank, or already present once trimmed)
\* in the tag or category editor leaves the list, the input box and the
\* activity log as they were.
C27_RejectedAddChangesNothing ==
    [][ /\ (handleAddTag /\ RejectedInput(st.newTag, st.tags)) =>
               /\ st'.tags = st.tags
               /\ st'.newTag = st.newTag
               /\ st'.activityLog = st.activityLog
        /\ (handleAddCategory /\ RejectedInput(st.newCategory, st.productCategories)) =>
               /\ st'.productCategories = st.productCategories
               /\ st'.newCategory = st.newCategory
               /\ st'.activityLog = st.activityLog
      ]_vars

C27_Witness ==
    /\ st.newTag = VeganPadded
    /\ st.tags = <<Organic, EcoFriendly, Health, Sustainable, Vegan>>
    /\ st.newCategory = Snacks
    /\ Len(st.activityLog) = 4
    /\ clock < MaxClock

LogEntry(key, arg, now) == [action |-> [key |-> key, arg |-> arg], timestamp |-> now]

\* C28: an accepted add stores the trimmed input as the last element, keeps
\* the other elements in order, clears the input box and puts exactly one
\* entry naming the trimmed value at the head of the log; a remove deletes
\* the named value, keeps the others in order and logs exactly one entry.
C28_AddAppendsRemoveDeletes ==
    [][ /\ (handleAddTag /\ ~RejectedInput(st.newTag, st.tags)) =>
               /\ Len(st'.tags) = Len(st.tags) + 1
               /\ SubSeq(st'.tags, 1, Len(st.tags)) = st.tags
               /\ IsTrimOf(st'.tags[Len(st'.tags)], st.newTag)
               /\ st'.newTag = <<>>
               /\ st'.activityLog =
                     <<LogEntry("added-new-tag", st'.tags[Len(st'.tags)], clock)>>
                        \o st.activityLog
        /\ (handleAddCategory /\ ~RejectedInput(st.newCategory, st.productCategories)) =>
               /\ Len(st'.productCategories) = Len(st.productCategories) + 1
               /\ SubSeq(st'.productCategories, 1, Len(st.productCategories))
                     = st.productCategories
               /\ IsTrimOf(st'.productCategories[Len(st'.productCategories)],
                           st.newCategory)
               /\ st'.newCategory = <<>>
               /\ st'.activityLog =
                     <<LogEntry("added-new-product-category",
                                st'.productCategories[Len(st'.productCategories)], clock)>>
                        \o st.activityLog
        /\ \A i \in 1..Len(st.tags) :
               handleRemoveTag(st.tags[i]) =>
                  /\ st'.tags = SubSeq(st.tags, 1, i - 1) \o SubSeq(st.tags, i + 1, Len(st.tags))
                  /\ st'.activityLog =
                        <<LogEntry("removed-tag", st.tags[i], clock)>> \o st.activityLog
        /\ \A i \in 1..Len(st.productCategories) :
               handleRemoveCategory(st.productCategories[i]) =>
                  /\ st'.productCategories =
                        SubSeq(st.productCategories, 1, i - 1)
                           \o SubSeq(st.productCategories, i + 1, Len(st.productCategories))
                  /\ st'.activityLog =
                        <<LogEntry("removed-product-category", st.productCategories[i], clock)>>
                           \o st.activityLog
      ]_vars

C28_Witness ==
    /\ st.tags = <<Organic, Health, Sustainable, Vegan>>
    /\ st.newTag = <<>>
    /\ Len(st.activityLog) = 5
    /\ st.activityLog[1].action = [key |-> "added-new-tag", arg |-> Vegan]
    /\ st.activityLog[2].action = [key |-> "removed-tag", arg |-> EcoFriendly]

----------------------------------------------------------------------------
(* The guard of the Settings page *)

BrandSignedIn(u) == u.isAuthenticated /\ u.role = "brand"

\* A step in which a control of the page acted: a save was started, a state
\* cell was written or a toast was emitted, other than by a timeout callback
ControlActed ==
    \/ Len(timers') > Len(timers)
    \/ (timers' = timers /\ (st' # st \/ toasts' # toasts))

\* C29: the guard effect navigates to /auth?type=signin when the user is not
\* authenticated and to /dashboard when the user is authenticated with a role
\* other than brand, and navigates nowhere for a brand user; once the effect
\* has run the page is on screen only for a signed-in brand user; and no
\* save, tag or category control acts unless a brand user is signed in.
C29_SettingsGuarded ==
    [][ /\ (user.effectDue /\ ~user'.effectDue /\ ~user.isAuthenticated) =>
               navigations' = Append(navigations, [to |-> AuthSignInPath, replace |-> FALSE])
        /\ (user.effectDue /\ ~user'.effectDue /\ user.isAuthenticated
               /\ user.role # "brand") =>
               navigations' = Append(navigations, [to |-> DashboardPath, replace |-> FALSE])
        /\ (user.effectDue /\ ~user'.effectDue /\ BrandSignedIn(user)) =>
               navigations' = navigations
        /\ (user'.mounted /\ ~user'.effectDue) => BrandSignedIn(user')
        /\ ControlActed => BrandSignedIn(user)
      ]_vars

C29_Witness ==
    /\ ~user.isAuthenticated
    /\ ~user.mounted
    /\ navigations = <<[to |-> AuthSignInPath, replace |-> FALSE]>>
    /\ Len(st.tags) = 5
    /\ timers # <<>>

----------------------------------------------------------------------------
(* Properties of the nginx server block *)

HeaderNames(response) == {h.name : h \in response.headers}

\* C23: every response of the port-443 server carries the three security
\* headers X-Frame-Options, X-XSS-Protection and X-Content-Type-Options,
\* whatever the request path, paths under /assets included.
C23_SecurityHeadersOnEveryResponse ==
    \A i \in 1..Len(served) :
        {"X-Frame-Options", "X-XSS-Protection", "X-Content-Type-Options"}
            \subseteq HeaderNames(served[i].response)

----------------------------------------------------------------------------
(* Properties of the social registration buttons *)

\* A step taken by one of the three social handlers or by the settling of a
\* redirect handshake
SocialStep ==
    \/ handleGoogleRegister
    \/ GoogleRedirectResolved
    \/ GoogleRedirectRejected
    \/ handleLineRegister
    \/ handleOutlookRegister

RECURSIVE Count(_, _)
Count(list, x) ==
    IF list = <<>> THEN 0
    ELSE (IF Head(list) = x THEN 1 ELSE 0) + Count(Tail(list), x)

\* C21: a step of a social registration shortcut (Google, Line, Outlook),
\* whether its handshake succeeds or fails, runs no validation, calls no
\* register and leaves the form's values, errors and busy flag unchanged; a
\* handshake that fails emits the destructive "Registration failed" toast.
C21_SocialLeavesFormAlone ==
    [][ /\ SocialStep =>
              /\ values' = values
              /\ errors' = errors
              /\ isSubmitted' = isSubmitted
              /\ isLoading' = isLoading
              /\ registerCalls' = registerCalls
              /\ inFlight' = inFlight
              /\ result' = result
        /\ Count(signUp'.outcomes, "rejected") > Count(signUp.outcomes, "rejected") =>
              /\ Len(toasts') = Len(toasts) + 1
              /\ toasts'[Len(toasts')].title = "Registration failed"
              /\ toasts'[Len(toasts')].variant = "destructive"
      ]_vars

C21_Witness ==
    /\ toasts = <<LineToast, GoogleFailureToast>>
    /\ signUp.outcomes = <<"rejected">>
    /\ isLoading
    /\ Len(registerCalls) = 1
    /\ values.email = JaneEmail

\* C30: a press of the Google button while the sign-up object is not loaded
\* changes nothing (the press itself is all the model records): no handshake
\* is started and no toast is emitted; a handshake starts only from a state in
\* which the provider is loaded, and failure toasts never outnumber the
\* handshakes that were started.
C30_GoogleNoOpUntilLoaded ==
    [][ /\ (signUp'.clicks # signUp.clicks /\ ~signUp.isLoaded) =>
              /\ signUp' = [signUp EXCEPT !.clicks = @ + 1]
              /\ UNCHANGED <<regVars, toasts, navigations, oauth, st, timers, clock, user, served>>
        /\ signUp'.started # signUp.started => signUp.isLoaded
        /\ Count(toasts', GoogleFailureToast) <= signUp'.started
      ]_vars

C30_Witness ==
    /\ signUp.clicks = 2
    /\ signUp.started = 1
    /\ signUp.isLoaded
    /\ toasts = <<GoogleFailureToast>>

====
